---- MODULE Spec2Model ----
(***************************************************************************)
(* A model of the TeaJS Redis client (lib/redis.js, lib/types.ts): the     *)
(* query pipeline (normalise, tokenise, encode, send and wait, decode),    *)
(* the socket's message and error notifications, and disconnect.           *)
(*                                                                         *)
(* A JavaScript string is modelled as a sequence of characters, each       *)
(* character being a TLA+ string that names it.  Characters that TLA+      *)
(* cannot write literally get a symbolic name (NUL, SOH, BTICK, EACUTE).  *)
(***************************************************************************)
EXTENDS Integers, Sequences, FiniteSets, TLC

----------------------------------------------------------------------------
(* Characters *)

NUL == "NUL"
SOH == "SOH"
SP == " "
CR == "\r"
LF == "\n"
TAB == "\t"
QUOT == "\""
APOS == "'"
BSL == "\\"
DOLLAR == "$"
BTICK == "BACKTICK"
EACUTE == "U+00E9"
GRIN == "U+1F600"

Letters ==
    {"a", "b", "c", "d", "e", "f", "g", "h", "i", "j", "k", "l", "m",
     "n", "o", "p", "q", "r", "s", "t", "u", "v", "w", "x", "y", "z",
     "A", "B", "C", "D", "E", "F", "G", "H", "I", "J", "K", "L", "M",
     "N", "O", "P", "Q", "R", "S", "T", "U", "V", "W", "X", "Y", "Z"}

DigitChars == <<"0", "1", "2", "3", "4", "5", "6", "7", "8", "9">>

IsDigit(c) == \E d \in 1..10 : DigitChars[d] = c

DigitValue(c) == (CHOOSE d \in 1..10 : DigitChars[d] = c) - 1

\* Number of UTF-16 code units of a character (what String.length counts).
Utf16Len(c) == IF c = GRIN THEN 2 ELSE 1

\* Number of bytes of a character in UTF-8 (what Buffer.from produces).
Utf8Len(c) == IF c = GRIN THEN 4 ELSE IF c = EACUTE THEN 2 ELSE 1

\* Whitespace stripped by String.prototype.trim.
TrimSpace == {SP, TAB, CR, LF}

----------------------------------------------------------------------------
(* String primitives *)

Min(S) == CHOOSE x \in S : \A y \in S : x <= y

Max(S) == CHOOSE x \in S : \A y \in S : x >= y

RECURSIVE JsLength(_)
JsLength(s) == IF s = <<>> THEN 0 ELSE Utf16Len(Head(s)) + JsLength(Tail(s))

RECURSIVE Utf8Bytes(_)
Utf8Bytes(s) ==
    IF s = <<>> THEN <<>>
    ELSE [k \in 1..Utf8Len(Head(s)) |-> <<Head(s), k>>] \o Utf8Bytes(Tail(s))

RECURSIVE Repeat(_, _)
Repeat(c, n) == IF n <= 0 THEN <<>> ELSE <<c>> \o Repeat(c, n - 1)

RECURSIVE NatToStr(_)
NatToStr(n) ==
    IF n < 10 THEN <<DigitChars[n + 1]>>
    ELSE NatToStr(n \div 10) \o <<DigitChars[(n % 10) + 1]>>

\* Number to string conversion of an integer, as in '' + n.
IntToStr(n) == IF n < 0 THEN <<"-">> \o NatToStr(0 - n) ELSE NatToStr(n)

StartsWithAt(s, sub, i) ==
    /\ i >= 1
    /\ i + Len(sub) - 1 <= Len(s)
    /\ sub = <<>> \/ s[i] = sub[1]
    /\ SubSeq(s, i, i + Len(sub) - 1) = sub

\* String.prototype.indexOf: 0-based index of the first occurrence, or -1.
IndexOf(s, sub) ==
    LET I == {i \in 1..Len(s) : StartsWithAt(s, sub, i)}
    IN  IF I = {} THEN -1 ELSE Min(I) - 1

\* s.replace(/[set]/g, c)
ReplaceChars(s, set, c) == [i \in 1..Len(s) |-> IF s[i] \in set THEN c ELSE s[i]]

\* Length of the maximal run of characters of `set` that starts at s[p].
RECURSIVE RunLen(_, _, _)
RunLen(s, p, set) ==
    IF p > Len(s) \/ s[p] \notin set THEN 0 ELSE 1 + RunLen(s, p + 1, set)

\* s.replace(/^[set]+/, '')
StripLeading(s, set) == SubSeq(s, RunLen(s, 1, set) + 1, Len(s))

\* String.prototype.split on a one-character separator.
RECURSIVE SplitChar(_, _)
SplitChar(s, c) ==
    LET I == {i \in 1..Len(s) : s[i] = c}
    IN  IF I = {} THEN <<s>>
        ELSE <<SubSeq(s, 1, Min(I) - 1)>> \o SplitChar(SubSeq(s, Min(I) + 1, Len(s)), c)

\* String.prototype.split("\r\n").
RECURSIVE SplitCRLF(_)
SplitCRLF(s) ==
    LET I == {i \in 1..Len(s) : StartsWithAt(s, <<CR, LF>>, i)}
    IN  IF I = {} THEN <<s>>
        ELSE <<SubSeq(s, 1, Min(I) - 1)>> \o SplitCRLF(SubSeq(s, Min(I) + 2, Len(s)))

\* String.prototype.trim.
Trim(s) ==
    LET K == {i \in 1..Len(s) : s[i] \notin TrimSpace}
    IN  IF K = {} THEN <<>> ELSE SubSeq(s, Min(K), Max(K))

\* The replacement patterns of String.prototype.replace with a string
\* pattern: $$ is a dollar, $& the matched text, $BTICK the text before the
\* match, $APOS the text after it; every other "$" is literal (there are no groups).
RECURSIVE ExpandRepl(_, _, _, _)
ExpandRepl(r, matched, before, after) ==
    LET P == {i \in 1..(Len(r) - 1) :
                 r[i] = DOLLAR /\ r[i + 1] \in {DOLLAR, "&", BTICK, APOS}}
    IN  IF P = {} THEN r
        ELSE LET p == Min(P)
             IN  SubSeq(r, 1, p - 1)
                 \o (CASE r[p + 1] = DOLLAR -> <<DOLLAR>>
                       [] r[p + 1] = "&" -> matched
                       [] r[p + 1] = BTICK -> before
                       [] r[p + 1] = APOS -> after)
                 \o ExpandRepl(SubSeq(r, p + 2, Len(r)), matched, before, after)

\* s.replace(pat, repl) with string arguments: the first occurrence only.
ReplaceFirst(s, pat, repl) ==
    LET i == IndexOf(s, pat)
    IN  IF i = -1 THEN s
        ELSE LET before == SubSeq(s, 1, i)
                 after == SubSeq(s, i + Len(pat) + 1, Len(s))
             IN  before \o ExpandRepl(repl, pat, before, after) \o after

\* parseInt(s, 10): leading white space, an optional sign, then the longest
\* run of decimal digits; NaN when there is no digit.
RECURSIVE DigitsValue(_, _)
DigitsValue(s, acc) ==
    IF s = <<>> \/ ~IsDigit(Head(s)) THEN acc
    ELSE DigitsValue(Tail(s), acc * 10 + DigitValue(Head(s)))

NaN == [nan |-> TRUE, n |-> 0]

Num(n) == [nan |-> FALSE, n |-> n]

\* A variant of ParseInt that reads the digits and drops the sign.
ParseIntUnsigned(s) ==
    LET t == StripLeading(s, TrimSpace)
        u == IF t # <<>> /\ Head(t) \in {"-", "+"} THEN Tail(t) ELSE t
    IN  IF u = <<>> \/ ~IsDigit(Head(u)) THEN NaN ELSE Num(DigitsValue(u, 0))

ParseInt(s) ==
    LET t == StripLeading(s, TrimSpace)
        neg == t # <<>> /\ Head(t) = "-"
        u == IF t # <<>> /\ Head(t) \in {"-", "+"} THEN Tail(t) ELSE t
    IN  IF u = <<>> \/ ~IsDigit(Head(u)) THEN NaN
        ELSE Num(IF neg THEN 0 - DigitsValue(u, 0) ELSE DigitsValue(u, 0))

\* Template-literal conversion of a number.
NumToStr(x) == IF x.nan THEN <<"N", "a", "N">> ELSE IntToStr(x.n)

----------------------------------------------------------------------------
(* Status texts *)

S_Empty == <<>>
S_EmptyQuery ==
    <<"E", "m", "p", "t", "y", " ", "q", "u", "e", "r", "y">>
S_NoConnection ==
    <<"N", "o", " ", "c", "o", "n", "n", "e", "c", "t", "i", "o", "n">>
S_InvalidQuery ==
    <<"I", "n", "v", "a", "l", "i", "d", " ", "q", "u", "e", "r", "y", " ",
    "f", "o", "r", "m", "a", "t">>
S_ParseLimit ==
    <<"Q", "u", "e", "r", "y", " ", "p", "a", "r", "s", "i", "n", "g", " ",
    "l", "i", "m", "i", "t", " ", "e", "x", "c", "e", "e", "d", "e", "d">>
S_NoResponse ==
    <<"N", "o", " ", "r", "e", "s", "p", "o", "n", "s", "e", " ", "f", "r",
    "o", "m", " ", "R", "e", "d", "i", "s", " ", "s", "e", "r", "v", "e",
    "r">>
S_SendFailed ==
    <<"F", "a", "i", "l", "e", "d", " ", "t", "o", " ", "s", "e", "n", "d",
    " ", "c", "o", "m", "m", "a", "n", "d", ":", " ">>
S_OK ==
    <<"O", "K">>
S_Unknown ==
    <<"U", "n", "k", "n", "o", "w", "n", " ", "R", "e", "d", "i", "s", " ",
    "r", "e", "s", "p", "o", "n", "s", "e", " ", "f", "o", "r", "m", "a",
    "t">>
S_SocketError ==
    <<"S", "o", "c", "k", "e", "t", " ", "e", "r", "r", "o", "r", ":", " ">>
S_InvalidPre ==
    <<"I", "n", "v", "a", "l", "i", "d", " ", "R", "e", "d", "i", "s", " ",
    "r", "e", "s", "p", "o", "n", "s", "e", ".", " ", "E", "x", "p", "e",
    "c", "t", "e", "d", " ">>
S_InvalidMid ==
    <<" ", "r", "e", "s", "u", "l", "t", "s", ",", " ", "b", "u", "t", " ",
    "g", "o", "t", ":", " ">>

----------------------------------------------------------------------------
(* Normalisation of the command string *)

\* q.replace(/[\0\1]/g, ' ')
ReplaceNulSoh(q) == ReplaceChars(q, {NUL, SOH}, SP)

\* q.replace(/^(?:[\r\n\t]+)|(?:[\r\n\t]+)$/mg, ''): with the m flag "^" is
\* the start of the string or the place after a CR or LF, and "$" the end
\* of the string or the place before a CR or LF.  Scanning from the left, a
\* run of CR/LF/TAB at a line start is removed whole; elsewhere the longest
\* prefix of the run that ends at a line end is removed.
RECURSIVE StripCtlAt(_, _)
StripCtlAt(s, p) ==
    IF p > Len(s) THEN <<>>
    ELSE IF s[p] \notin {CR, LF, TAB} THEN <<s[p]>> \o StripCtlAt(s, p + 1)
    ELSE LET r == RunLen(s, p, {CR, LF, TAB})
             atLineStart == p = 1 \/ s[p - 1] \in {CR, LF}
             K == {k \in 1..r : p + k > Len(s) \/ s[p + k] \in {CR, LF}}
         IN  IF atLineStart THEN StripCtlAt(s, p + r)
             ELSE IF K # {} THEN StripCtlAt(s, p + Max(K))
             ELSE <<s[p]>> \o StripCtlAt(s, p + 1)

StripCtl(q) == StripCtlAt(q, 1)

\* q.replace(/(?:\r\n)+/g, '\\r\\n'): each run of CR LF pairs becomes the
\* four characters backslash, r, backslash, n.
RECURSIVE CrlfPairs(_, _)
CrlfPairs(s, p) ==
    IF StartsWithAt(s, <<CR, LF>>, p) THEN 1 + CrlfPairs(s, p + 2) ELSE 0

RECURSIVE EscapeCrlfAt(_, _)
EscapeCrlfAt(s, p) ==
    IF p > Len(s) THEN <<>>
    ELSE IF StartsWithAt(s, <<CR, LF>>, p)
    THEN <<BSL, "r", BSL, "n">> \o EscapeCrlfAt(s, p + 2 * CrlfPairs(s, p))
    ELSE <<s[p]>> \o EscapeCrlfAt(s, p + 1)

EscapeCrlf(q) == EscapeCrlfAt(q, 1)

Normalize(q) == EscapeCrlf(StripCtl(ReplaceNulSoh(q)))

\* A variant of HasLetter that accepts a digit as well.
HasLetterOrDigit(q) == \E i \in 1..Len(q) : q[i] \in Letters \/ IsDigit(q[i])

\* q.match(/[a-z]/i)
HasLetter(q) == \E i \in 1..Len(q) : q[i] \in Letters

----------------------------------------------------------------------------
(* Quote handling *)

\* The quote style that is processed: "quot" unless " '" occurs and " \""
\* does not occur before it.
ActiveQuote(q) ==
    LET quot == IndexOf(q, <<SP, QUOT>>)
        apos == IndexOf(q, <<SP, APOS>>)
    IN  IF apos = -1 \/ (quot # -1 /\ apos > quot) THEN QUOT ELSE APOS

HasQuoteIntro(q) == IndexOf(q, <<SP, QUOT>>) > -1 \/ IndexOf(q, <<SP, APOS>>) > -1

\* q.replace(esc_re, ...): every maximal run of n backslashes that is
\* followed by the quote character becomes SOH, the digits of n, ";".
RECURSIVE EscapeQuotesAt(_, _, _)
EscapeQuotesAt(s, p, Q) ==
    IF p > Len(s) THEN <<>>
    ELSE LET n == RunLen(s, p, {BSL})
         IN  IF n > 0 /\ p + n <= Len(s) /\ s[p + n] = Q
             THEN <<SOH>> \o IntToStr(n) \o <<";">> \o EscapeQuotesAt(s, p + n + 1, Q)
             ELSE <<s[p]>> \o EscapeQuotesAt(s, p + 1, Q)

EscapeQuotes(q, Q) == EscapeQuotesAt(q, 1, Q)

\* q.match(match_re) for match_re = /(Q[^Q]*[ ][^Q]*Q)/: the leftmost quote
\* character whose next quote character lies beyond at least one space.
\* The value is <<first, last>> (1-based, inclusive) or <<>> for no match.
MatchSpan(q, Q) ==
    LET Starts == {i \in 1..Len(q) :
                     /\ q[i] = Q
                     /\ \E j \in (i + 1)..Len(q) :
                          /\ q[j] = Q
                          /\ \A k \in (i + 1)..(j - 1) : q[k] # Q
                          /\ \E k \in (i + 1)..(j - 1) : q[k] = SP}
    IN  IF Starts = {} THEN <<>>
        ELSE LET i == Min(Starts)
                 j == Min({j \in (i + 1)..Len(q) : q[j] = Q})
             IN  <<i, j>>

\* while ((arg = q.match(match_re)) && arg[1] && --len)
\*     q = q.replace(arg[1], arg[1].replace(/[ ]/g, '\0'));
\* One evaluation of the loop condition, with the body when it holds.  st is
\* the string, len, and whether the loop has been left.
SpanStep(st, Q) ==
    LET m == MatchSpan(st.q, Q)
    IN  IF st.done THEN st
        ELSE IF m = <<>> THEN [st EXCEPT !.done = TRUE]
        ELSE IF st.len - 1 = 0 THEN [st EXCEPT !.len = 0, !.done = TRUE]
        ELSE LET span == SubSeq(st.q, m[1], m[2])
             IN  [q |-> ReplaceFirst(st.q, span, ReplaceChars(span, {SP}, NUL)),
                  len |-> st.len - 1,
                  done |-> FALSE]

\* Up to n evaluations of the loop condition in a row.
RECURSIVE SpanSteps(_, _, _)
SpanSteps(st, Q, n) ==
    IF st.done \/ n = 0 THEN st
    ELSE IF n = 1 THEN SpanStep(st, Q)
    ELSE LET half == SpanSteps(st, Q, n \div 2)
         IN  SpanSteps(half, Q, n - (n \div 2))

\* The loop from len: it evaluates its condition at most len times, len
\* being 0 at the last of them.  The value is the string and len when the
\* loop is left.
SpanLoop(q, Q, len) ==
    LET st == SpanSteps([q |-> q, len |-> len, done |-> FALSE], Q, len)
    IN  [q |-> st.q, len |-> st.len]

\* q.replace(/[ ][ ][ ]*/g, ' ')
RECURSIVE CollapseSpacesAt(_, _)
CollapseSpacesAt(s, p) ==
    IF p > Len(s) THEN <<>>
    ELSE IF s[p] = SP THEN <<SP>> \o CollapseSpacesAt(s, p + RunLen(s, p, {SP}))
    ELSE <<s[p]>> \o CollapseSpacesAt(s, p + 1)

CollapseSpaces(q) == CollapseSpacesAt(q, 1)

\* q.replace(replace_re, ...): SOH, digits, ";" becomes that many
\* backslashes and the quote character.
RECURSIVE RestoreQuotesAt(_, _, _)
RestoreQuotesAt(s, p, Q) ==
    IF p > Len(s) THEN <<>>
    ELSE LET d == RunLen(s, p + 1, {DigitChars[k] : k \in 1..10})
         IN  IF s[p] = SOH /\ d > 0 /\ p + 1 + d <= Len(s) /\ s[p + 1 + d] = ";"
             THEN Repeat(BSL, DigitsValue(SubSeq(s, p + 1, p + d), 0)) \o <<Q>>
                  \o RestoreQuotesAt(s, p + d + 2, Q)
             ELSE <<s[p]>> \o RestoreQuotesAt(s, p + 1, Q)

RestoreQuotes(q, Q) == RestoreQuotesAt(q, 1, Q)

\* len = 1024, the safety limit of the quoted-span loop.
ParseLimit == 1024

\* A variant of Unquote that leaves a pair of quotes with nothing inside.
UnquoteNonEmpty(a) ==
    IF /\ Len(a) >= 3
       /\ a[1] \in {QUOT, APOS}
       /\ a[Len(a)] = a[1]
       /\ \A k \in 2..(Len(a) - 1) : a[k] \notin {CR, LF}
    THEN SubSeq(a, 2, Len(a) - 1)
    ELSE a

\* A variant of Unquote that knows the double quote only.
UnquoteDoubleOnly(a) ==
    IF Len(a) >= 2 /\ a[1] = QUOT /\ a[Len(a)] = QUOT
    THEN SubSeq(a, 2, Len(a) - 1)
    ELSE a

\* if (arg[i].match(/^(["']).*\1$/)) arg[i] = arg[i].replace(/^(['"])|(['"])$/g, '')
\* "." does not match CR or LF.
Unquote(a) ==
    IF /\ Len(a) >= 2
       /\ a[1] \in {QUOT, APOS}
       /\ a[Len(a)] = a[1]
       /\ \A k \in 2..(Len(a) - 1) : a[k] \notin {CR, LF}
    THEN SubSeq(a, 2, Len(a) - 1)
    ELSE a

\* arg[i].replace(/\0/g, ' ') followed by the removal of the outer quotes.
FinishArg(a) == Unquote(ReplaceChars(a, {NUL}, SP))

\* A variant of Tokenize that, when the safety check of the loop fails,
\* splits the command as it stands instead of giving up.
TokenizeUnguarded(q) ==
    IF HasQuoteIntro(q)
    THEN LET Q == ActiveQuote(q)
             r == SpanLoop(EscapeQuotes(q, Q), Q, ParseLimit)
             split == SplitChar(IF r.len <= 1 THEN q
                                ELSE RestoreQuotes(CollapseSpaces(r.q), Q), SP)
         IN  [ok |-> TRUE, args |-> [i \in 1..Len(split) |-> FinishArg(split[i])]]
    ELSE LET split == SplitChar(q, SP)
         IN  [ok |-> TRUE, args |-> [i \in 1..Len(split) |-> FinishArg(split[i])]]

\* The tokenizer of query on a normalised command: the quote handling and
\* the split.  ok is FALSE when the safety check of the loop fails.
Tokenize(q) ==
    IF HasQuoteIntro(q)
    THEN LET Q == ActiveQuote(q)
             r == SpanLoop(EscapeQuotes(q, Q), Q, ParseLimit)
         IN  IF r.len <= 1 THEN [ok |-> FALSE, args |-> <<>>]
             ELSE LET split == SplitChar(RestoreQuotes(CollapseSpaces(r.q), Q), SP)
                  IN  [ok |-> TRUE,
                       args |-> [i \in 1..Len(split) |-> FinishArg(split[i])]]
    ELSE LET split == SplitChar(q, SP)
         IN  [ok |-> TRUE, args |-> [i \in 1..Len(split) |-> FinishArg(split[i])]]

----------------------------------------------------------------------------
(* Request encoder *)

\* '$' + arg.length + "\r\n" + arg + "\r\n"
EncodeArg(a) == <<DOLLAR>> \o IntToStr(JsLength(a)) \o <<CR, LF>> \o a \o <<CR, LF>>

RECURSIVE EncodeArgs(_)
EncodeArgs(args) ==
    IF args = <<>> THEN <<>> ELSE EncodeArg(Head(args)) \o EncodeArgs(Tail(args))

\* msg = '*' + len + "\r\n" + the arguments
Encode(args) == <<"*">> \o IntToStr(Len(args)) \o <<CR, LF>> \o EncodeArgs(args)

\* connection.send(Buffer.from(msg), 0, msg.length, fd): the UTF-8 bytes of
\* msg, and the number of them that send is told to transmit.
SendCall(msg) == [buf |-> Utf8Bytes(msg), length |-> JsLength(msg)]

----------------------------------------------------------------------------
(* Reply decoder *)

\* The elements of a result: a string, null, or a number (which may be NaN).
StrElem(s) == [t |-> "str", s |-> s, n |-> 0]

NullElem == [t |-> "null", s |-> <<>>, n |-> 0]

NumElem(x) == IF x.nan THEN [t |-> "nan", s |-> <<>>, n |-> 0]
              ELSE [t |-> "num", s |-> <<>>, n |-> x.n]

\* What query returns: null, or a sequence of elements.
RetNull == [null |-> TRUE, data |-> <<>>]

RetData(d) == [null |-> FALSE, data |-> d]

\* A variant of StartsWith that finds the character anywhere in the line.
StartsWithAnywhere(s, c) == \E i \in 1..Len(s) : s[i] = c

StartsWith(s, c) == s # <<>> /\ Head(s) = c

\* Variants of ErrorStatus and SimpleStatus that remove the marker alone.
ErrorStatusMarkerOnly(firstLine) == Tail(firstLine)

SimpleStatusMarkerOnly(firstLine) == Tail(firstLine)

\* firstLine.replace(/^[\- ]+/, '')
ErrorStatus(firstLine) == StripLeading(firstLine, {"-", SP})

\* firstLine.replace(/^[+ ]+/, '')
SimpleStatus(firstLine) == StripLeading(firstLine, {"+", SP})

\* this.status = this.status || 'OK'
StatusOrOK(st) == IF st # <<>> THEN st ELSE S_OK

\* A variant of IsNullBulk that recognises no line.
IsNullBulkNever(line) == FALSE

\* line.match(/^\$\-1/)
IsNullBulk(line) == StartsWithAt(line, <<DOLLAR, "-", "1">>, 1)

\* The loop over the lines of an array reply: the flag is toggled at every
\* line; a line met with the flag set is pushed as data, a line met with it
\* clear is pushed as null when it is a null-bulk header and sets the flag.
RECURSIVE ArrayWalk(_, _, _, _)
ArrayWalk(lines, i, isDataLine, result) ==
    IF i > Len(lines) THEN result
    ELSE IF ~isDataLine
         THEN ArrayWalk(lines, i + 1, TRUE, Append(result, StrElem(lines[i])))
         ELSE IF IsNullBulk(lines[i])
              THEN ArrayWalk(lines, i + 1, TRUE, Append(result, NullElem))
              ELSE ArrayWalk(lines, i + 1, FALSE, result)

ArrayElements(lines) == ArrayWalk(lines, 1, FALSE, <<>>)

\* Array.prototype.toString: the elements joined by ",", null as ''.
RECURSIVE JoinComma(_)
JoinComma(r) ==
    IF r = <<>> THEN <<>>
    ELSE (IF Head(r).t = "str" THEN Head(r).s ELSE <<>>)
         \o (IF Len(r) > 1 THEN <<",">> ELSE <<>>) \o JoinComma(Tail(r))

InvalidStatus(expected, result) ==
    S_InvalidPre \o NumToStr(expected) \o S_InvalidMid \o JoinComma(result)

\* A variant of DecodeArray without the integrity check.
DecodeArrayUnchecked(firstLine, lines, st) ==
    [ret |-> RetData(ArrayElements(lines)),
     status |-> StatusOrOK(st),
     rows |-> ParseInt(StripLeading(firstLine, {"*", SP})).n]

\* The array branch: rows is the parsed count; the reply is rejected when
\* the number of pushed elements differs from it (always, for NaN).
DecodeArray(firstLine, lines, st) ==
    LET expected == ParseInt(StripLeading(firstLine, {"*", SP}))
        result == ArrayElements(lines)
    IN  IF expected.nan \/ Len(result) # expected.n
        THEN [ret |-> RetNull, status |-> InvalidStatus(expected, result), rows |-> 0]
        ELSE [ret |-> RetData(result), status |-> StatusOrOK(st), rows |-> expected.n]

\* The bulk branch: rows is 0 for a null bulk and 1 otherwise; the value is
\* every line after the first, or [''] when there is none and rows is 1.
DecodeBulk(firstLine, lines, st) ==
    LET r == IF IsNullBulk(firstLine) THEN 0 ELSE 1
    IN  [ret |-> RetData(IF lines = <<>> /\ r = 1 THEN <<StrElem(<<>>)>>
                          ELSE [i \in 1..Len(lines) |-> StrElem(lines[i])]),
         status |-> StatusOrOK(st),
         rows |-> r]

DecodeInteger(firstLine, st) ==
    [ret |-> RetData(<<NumElem(ParseInt(StripLeading(firstLine, {":", SP})))>>),
     status |-> StatusOrOK(st),
     rows |-> 1]

\* The parse of a reply buffer by query; st and rw are this.status and
\* this.rows when query gets there.  The buffer is given by the text that
\* buf.toString('utf8') yields.
Decode(buf, st, rw) ==
    LET all == SplitCRLF(Trim(buf))
        firstLine == Head(all)
        lines == Tail(all)
    IN  CASE StartsWith(firstLine, "-") ->
               [ret |-> RetNull, status |-> ErrorStatus(firstLine), rows |-> rw]
          [] StartsWith(firstLine, "+") ->
               [ret |-> RetData(<<>>), status |-> SimpleStatus(firstLine), rows |-> rw]
          [] StartsWith(firstLine, ":") -> DecodeInteger(firstLine, st)
          [] StartsWith(firstLine, DOLLAR) -> DecodeBulk(firstLine, lines, st)
          [] StartsWith(firstLine, "*") -> DecodeArray(firstLine, lines, st)
          [] OTHER -> [ret |-> RetNull, status |-> S_Unknown, rows |-> rw]

----------------------------------------------------------------------------
(* The client *)

VARIABLES
    status,            \* this.status
    rows,              \* this.rows
    connection,        \* TRUE while this.connection is a socket, FALSE for null
    pendingResponse,   \* this.pendingResponse: <<>> for null, else <<message>>
    responseCallback,  \* this.responseCallback: 0 for null, else the call whose
                       \* promise the closure settles
    calls,             \* the query calls that reached the promise executor, in
                       \* order, each with the state of its promise
    stack,             \* the calls suspended in responsePromise.sync(), innermost last
    sent,              \* the most recent connection.send that did not throw
    last,              \* the most recent operation and, for a query, its outcome
    given              \* the input under test of the single-input specifications

vars ==
    <<status, rows, connection, pendingResponse, responseCallback, calls,
      stack, sent, last, given>>

\* Bound on the number of query calls that reach the transport.
MaxCalls == 2

\* An inbound message: its text and the number of calls that had reached
\* the transport (and sent their frame) when the notification delivered it.
Message(bytes) == [bytes |-> bytes, at |-> Len(calls)]

NoMessage == [bytes |-> <<>>, at |-> 0]

Pending(q, didSend) ==
    [q |-> q, sent |-> didSend, state |-> "pending", msg |-> NoMessage, err |-> <<>>]

Rejected(c, err) == [c EXCEPT !.state = "rejected", !.err = err]

Resolved(c, m) == [c EXCEPT !.state = "resolved", !.msg = m]

\* resolve and reject act on a pending promise only.
Reject(c, err) == IF c.state = "pending" THEN Rejected(c, err) ELSE c

Resolve(c, m) == IF c.state = "pending" THEN Resolved(c, m) ELSE c

\* A variant of Callback that settles the promise again when it is settled.
CallbackOverrides(c, m) ==
    IF m = <<>> THEN Rejected(c, S_NoResponse) ELSE Resolved(c, m[1])

\* The closure stored in this.responseCallback, applied to the promise c:
\* an absent buffer rejects, a buffer resolves.
Callback(c, m) == IF m = <<>> THEN Reject(c, S_NoResponse) ELSE Resolve(c, m[1])

NoSend == [call |-> 0, msg |-> <<>>, buf |-> <<>>, length |-> 0]

Outcome(op, q, call, didSend, reply, ret) ==
    [op |-> op, q |-> q, call |-> call, sent |-> didSend, reply |-> reply, ret |-> ret]

\* The state after a successful construction with no message outstanding.
InitClient ==
    /\ status = S_Empty
    /\ rows = 0
    /\ connection = TRUE
    /\ pendingResponse = <<>>
    /\ responseCallback = 0
    /\ calls = <<>>
    /\ stack = <<>>
    /\ sent = NoSend
    /\ last = Outcome("init", <<>>, 0, FALSE, <<>>, RetNull)

\* query from the point where responsePromise.sync() hands back the settled
\* promise c of call id: a rejection becomes the status, a buffer is parsed.
\* rowsNow is this.rows at that point.
Return(id, c, rowsNow) ==
    IF c.state = "rejected"
    THEN /\ status' = c.err
         /\ rows' = rowsNow
         /\ last' = Outcome("query", c.q, id, c.sent, <<>>, RetNull)
    ELSE LET d == Decode(c.msg.bytes, status, rowsNow)
         IN  /\ status' = d.status
             /\ rows' = d.rows
             /\ last' = Outcome("query", c.q, id, c.sent, <<c.msg.bytes>>, d.ret)

\* query(q) up to its return or its suspension in sync().  sendThrows and
\* err are the outcome of connection.send.
QueryCall(q, sendThrows, err) ==
    /\ Len(calls) < MaxCalls
    /\ IF q = <<>> \/ ~connection
       THEN /\ status' = (IF q = <<>> THEN S_EmptyQuery ELSE S_NoConnection)
            /\ last' = Outcome("query", q, 0, FALSE, <<>>, RetNull)
            /\ UNCHANGED <<rows, connection, pendingResponse, responseCallback,
                           calls, stack, sent, given>>
       ELSE IF ~HasLetter(Normalize(q))
       THEN /\ status' = S_InvalidQuery
            /\ last' = Outcome("query", q, 0, FALSE, <<>>, RetNull)
            /\ UNCHANGED <<rows, connection, pendingResponse, responseCallback,
                           calls, stack, sent, given>>
       ELSE IF ~Tokenize(Normalize(q)).ok
       THEN /\ status' = S_ParseLimit
            /\ last' = Outcome("query", q, 0, FALSE, <<>>, RetNull)
            /\ UNCHANGED <<rows, connection, pendingResponse, responseCallback,
                           calls, stack, sent, given>>
       ELSE LET id == Len(calls) + 1
                msg == Encode(Tokenize(Normalize(q)).args)
                c0 == Pending(q, ~sendThrows)
                c1 == IF sendThrows THEN Reject(c0, S_SendFailed \o err) ELSE c0
                c2 == IF pendingResponse # <<>> THEN Callback(c1, pendingResponse) ELSE c1
            IN  /\ responseCallback' = id
                /\ pendingResponse' = <<>>
                /\ sent' = (IF sendThrows THEN sent
                            ELSE [call |-> id, msg |-> msg] @@ SendCall(msg))
                /\ calls' = Append(calls, c2)
                /\ UNCHANGED <<connection, given>>
                /\ IF c2.state = "pending"
                   THEN /\ stack' = Append(stack, id)
                        /\ rows' = 0
                        /\ last' = Outcome("wait", q, id, ~sendThrows, <<>>, RetNull)
                        /\ UNCHANGED status
                   ELSE /\ stack' = stack
                        /\ Return(id, c2, 0)

\* A variant of QueryResume that does not wait for the promise.
QueryResumeEarly ==
    /\ stack # <<>>
    /\ LET id == stack[Len(stack)]
       IN  /\ stack' = SubSeq(stack, 1, Len(stack) - 1)
           /\ Return(id, calls[id], rows)
    /\ UNCHANGED <<connection, pendingResponse, responseCallback, calls, sent, given>>

\* The innermost suspended query resumes once its promise is settled.
QueryResume ==
    /\ stack # <<>>
    /\ LET id == stack[Len(stack)]
       IN  /\ calls[id].state # "pending"
           /\ stack' = SubSeq(stack, 1, Len(stack) - 1)
           /\ Return(id, calls[id], rows)
    /\ UNCHANGED <<connection, pendingResponse, responseCallback, calls, sent, given>>

\* A variant of OnMessage that stores the message also when a hook takes it.
OnMessageStores(m) ==
    /\ connection
    /\ pendingResponse' = (IF m = <<>> THEN <<>> ELSE <<Message(m[1])>>)
    /\ responseCallback' = responseCallback
    /\ calls' = IF responseCallback # 0
                THEN [calls EXCEPT ![responseCallback] =
                         Callback(@, IF m = <<>> THEN <<>> ELSE <<Message(m[1])>>)]
                ELSE calls
    /\ last' = Outcome("message", <<>>, 0, FALSE, <<>>, RetNull)
    /\ UNCHANGED <<status, rows, connection, stack, sent, given>>

\* The socket's 'message' listener; m is <<>> for an absent buffer, else
\* <<bytes>>.
OnMessage(m) ==
    /\ connection
    /\ IF responseCallback # 0
       THEN /\ calls' = [calls EXCEPT ![responseCallback] =
                            Callback(@, IF m = <<>> THEN <<>> ELSE <<Message(m[1])>>)]
            /\ responseCallback' = 0
            /\ UNCHANGED pendingResponse
       ELSE /\ pendingResponse' = (IF m = <<>> THEN <<>> ELSE <<Message(m[1])>>)
            /\ UNCHANGED <<calls, responseCallback>>
    /\ last' = Outcome("message", <<>>, 0, FALSE, <<>>, RetNull)
    /\ UNCHANGED <<status, rows, connection, stack, sent, given>>

\* A variant of OnError that also fails the query that awaits its reply.
OnErrorFailsCall(err) ==
    /\ connection
    /\ status' = S_SocketError \o err
    /\ calls' = IF responseCallback # 0
                THEN [calls EXCEPT ![responseCallback] = Reject(@, S_SocketError \o err)]
                ELSE calls
    /\ last' = Outcome("error", <<>>, 0, FALSE, <<>>, RetNull)
    /\ UNCHANGED <<rows, connection, pendingResponse, responseCallback, stack, sent,
                   given>>

\* The socket's 'error' listener.
OnError(err) ==
    /\ connection
    /\ status' = S_SocketError \o err
    /\ last' = Outcome("error", <<>>, 0, FALSE, <<>>, RetNull)
    /\ UNCHANGED <<rows, connection, pendingResponse, responseCallback, calls,
                   stack, sent, given>>

\* What a disconnect() call leaves in last; closeFailed tells that close()
\* was called and raised an error.
Disconnected(closeFailed) ==
    [op |-> "disconnect", q |-> <<>>, call |-> 0, sent |-> FALSE, reply |-> <<>>,
     ret |-> RetNull, closeFailed |-> closeFailed]

\* A variant of Disconnect that resets the fields and keeps the socket.
DisconnectKeepsSocket(closeThrows) ==
    /\ IF connection
       THEN /\ pendingResponse' = <<>>
            /\ responseCallback' = 0
            /\ rows' = 0
            /\ status' = S_Empty
       ELSE UNCHANGED <<pendingResponse, responseCallback, rows, status>>
    /\ last' = Disconnected(connection /\ closeThrows)
    /\ UNCHANGED <<connection, calls, stack, sent, given>>

\* A variant of Disconnect whose reset is skipped when close() raises.
DisconnectNoFinally(closeThrows) ==
    /\ IF connection /\ ~closeThrows
       THEN /\ connection' = FALSE
            /\ pendingResponse' = <<>>
            /\ responseCallback' = 0
            /\ rows' = 0
            /\ status' = S_Empty
       ELSE UNCHANGED <<connection, pendingResponse, responseCallback, rows, status>>
    /\ last' = Disconnected(connection /\ closeThrows)
    /\ UNCHANGED <<calls, stack, sent, given>>

\* disconnect(): closeThrows tells whether close() raises; the error is
\* ignored and the finally block runs either way.
Disconnect(closeThrows) ==
    /\ IF connection
       THEN /\ connection' = FALSE
            /\ pendingResponse' = <<>>
            /\ responseCallback' = 0
            /\ rows' = 0
            /\ status' = S_Empty
       ELSE UNCHANGED <<connection, pendingResponse, responseCallback, rows, status>>
    /\ last' = Disconnected(connection /\ closeThrows)
    /\ UNCHANGED <<calls, stack, sent, given>>

\* A variant of MatchesOK that accepts every status.
MatchesOKAlways(st) == TRUE

\* this.status.match(/OK/i)
MatchesOK(st) ==
    \E i \in 1..(Len(st) - 1) : st[i] \in {"O", "o"} /\ st[i + 1] \in {"K", "k"}

\* 'AUTH ' + config.password and 'SELECT ' + config.db
AuthCmd(password) == <<"A", "U", "T", "H", SP>> \o password

SelectCmd(db) == <<"S", "E", "L", "E", "C", "T", SP>> \o db

\* The constructor from the point where the socket is connected; cfg is
\* the configuration.  It authenticates when a password is configured.
CtorAuth(cfg) ==
    /\ last.op = "init"
    /\ cfg.password # <<>>
    /\ \E t \in BOOLEAN, e \in {<<"E", "I", "O">>} : QueryCall(AuthCmd(cfg.password), t, e)

\* It selects the database, after AUTH when there was one.
CtorSelect(cfg) ==
    /\ \/ last.op = "init" /\ cfg.password = <<>>
       \/ /\ last.op = "query"
          /\ last.q = AuthCmd(cfg.password)
          /\ MatchesOK(status)
    /\ \E t \in BOOLEAN, e \in {<<"E", "I", "O">>} : QueryCall(SelectCmd(cfg.db), t, e)

\* It gives up when AUTH or SELECT left a status that does not match.
CtorFail ==
    /\ last.op = "query"
    /\ ~MatchesOK(status)
    /\ \E t \in BOOLEAN : Disconnect(t)

\* It resets rows and status after a successful SELECT.
CtorDone(cfg) ==
    /\ last.op = "query"
    /\ last.q = SelectCmd(cfg.db)
    /\ MatchesOK(status)
    /\ rows' = 0
    /\ status' = S_Empty
    /\ last' = Outcome("constructed", <<>>, 0, FALSE, <<>>, RetNull)
    /\ UNCHANGED <<connection, pendingResponse, responseCallback, calls, stack, sent,
                   given>>

----------------------------------------------------------------------------
(* Inputs *)

RECURSIVE Join(_, _)
Join(parts, sep) ==
    IF parts = <<>> THEN <<>>
    ELSE IF Len(parts) = 1 THEN Head(parts)
    ELSE Head(parts) \o sep \o Join(Tail(parts), sep)

\* A reply buffer: every line followed by CR LF.
RECURSIVE ReplyOf(_)
ReplyOf(lines) ==
    IF lines = <<>> THEN <<>> ELSE Head(lines) \o <<CR, LF>> \o ReplyOf(Tail(lines))

\* All sequences over S of length lo..hi.
SeqsOf(S, lo, hi) == UNION {[1..n -> S] : n \in lo..hi}

GetK == <<"G", "E", "T", " ", "k">>

\* The commands, replies and error texts of the client specification.
Commands == {GetK, <<>>, <<"1">>}

Replies ==
    {ReplyOf(<<<<"+", "O", "K">>>>),
     ReplyOf(<<<<"-", "E", "R", "R">>>>),
     ReplyOf(<<<<":", "1">>>>),
     ReplyOf(<<<<DOLLAR, "1">>, <<"a">>>>),
     ReplyOf(<<<<"*", "1">>, <<DOLLAR, "1">>, <<"a">>>>)}

\* What the message notification may hand over: a reply, a zero-length
\* buffer, or no buffer at all (<<>>).
EmptyBuffer == <<>>

Inbound == {<<m>> : m \in Replies \cup {EmptyBuffer}} \cup {<<>>}

Errors == {<<"E", "I", "O">>}

\* Bounds of the single-input specifications.
MaxUnits == 4
MaxLineLen == 3
MaxElems == 3

OtherQuote(Q) == IF Q = QUOT THEN APOS ELSE QUOT

Quoted(Q, content) == <<Q>> \o content \o <<Q>>

Words == {<<"M">>, <<"k">>}

\* Commands with balanced quotes of one style Q: a word, then words and
\* quoted spans, separated by single spaces.
BalancedUnits(Q) ==
    Words \cup {Quoted(Q, <<"a", SP, "b">>), Quoted(Q, <<"c">>), Quoted(Q, <<>>)}

BalancedInputs ==
    {[kind |-> "balanced", units |-> <<w>> \o u, cmd |-> Join(<<w>> \o u, <<SP>>)] :
        w \in Words,
        u \in UNION {SeqsOf(BalancedUnits(Q), 0, MaxUnits - 1) : Q \in {QUOT, APOS}}}

\* Commands with exactly one quoted span that contains spaces, as an
\* argument among plain words; units holds the span without its quotes.
SpanContents(Q) ==
    {<<"a", SP, "b">>, <<SP, "a">>, <<"a", SP>>, <<"a", SP, SP, "b">>, <<SP>>,
     <<"a", SP, OtherQuote(Q), "b">>, <<OtherQuote(Q), "a", SP, "b", OtherQuote(Q)>>,
     <<"a", SP, BSL, Q, "b">>}

SetKeyAB ==
    <<"S", "E", "T", " ", "k", "e", "y", " ", QUOT, "a", " ", "b", QUOT>>

SetKeyABFrame ==
    <<"*", "3", CR, LF, DOLLAR, "3", CR, LF, "S", "E", "T", CR, LF, DOLLAR,
    "3", CR, LF, "k", "e", "y", CR, LF, DOLLAR, "3", CR, LF, "a", " ", "b",
    CR, LF>>

OneSpanFor(Q) ==
    {[kind |-> "onespan",
      units |-> <<w>> \o pre \o <<c>> \o post,
      cmd |-> Join(<<w>> \o pre \o <<Quoted(Q, c)>> \o post, <<SP>>)] :
        w \in Words, pre \in SeqsOf(Words, 0, MaxUnits - 3),
        post \in SeqsOf(Words, 0, 1), c \in SpanContents(Q)}

OneSpanInputs ==
    OneSpanFor(QUOT) \cup OneSpanFor(APOS)
    \cup {[kind |-> "onespan",
           units |-> <<<<"S", "E", "T">>, <<"k", "e", "y">>, <<"a", SP, "b">>>>,
           cmd |-> SetKeyAB]}

\* Commands in which the last quote of the active style is never closed.
UnterminatedInputs ==
    {[kind |-> "unterminated", units |-> <<>>, cmd |-> Join(<<w>> \o pre \o <<t>>, <<SP>>)] :
        w \in Words,
        pre \in {<<>>, <<<<"k">>>>, <<Quoted(QUOT, <<"a", SP, "b">>)>>},
        t \in {<<QUOT, "a", SP, "b">>, <<QUOT, "a">>, <<QUOT>>, <<QUOT, SP, "a">>}}

\* Commands of plain words, some with characters outside ASCII.
PlainWords == {<<"S">>, <<EACUTE>>, <<"a", GRIN>>}

PlainInputs ==
    {[kind |-> "plain", units |-> u, cmd |-> Join(u, <<SP>>)] :
        u \in SeqsOf(PlainWords, 1, MaxUnits - 1)}

\* Commands of plain words with one token that is an empty pair of quotes,
\* at any place; units holds the empty string for it.
EmptyPairInputs ==
    {[kind |-> "emptypair",
      units |-> pre \o <<<<>>>> \o post,
      cmd |-> Join(pre \o <<Quoted(Q, <<>>)>> \o post, <<SP>>)] :
        Q \in {QUOT, APOS},
        pre \in SeqsOf(Words, 0, MaxUnits - 2),
        post \in SeqsOf(Words, 1, MaxUnits - 2)}
    \cup
    {[kind |-> "emptypair",
      units |-> pre \o <<<<>>>>,
      cmd |-> Join(pre \o <<Quoted(Q, <<>>)>>, <<SP>>)] :
        Q \in {QUOT, APOS},
        pre \in SeqsOf(Words, 1, MaxUnits - 2)}

\* A command whose quoted span holds the replacement pattern $APOS: each
\* replace puts the text after the span, with its space, back into the span.
DollarAfter ==
    <<"M", SP, QUOT, "a", SP, DOLLAR, APOS, SP, "b", QUOT, SP, DOLLAR, APOS>>

LoopingInputs == {[kind |-> "looping", units |-> <<>>, cmd |-> DollarAfter]}

TokInputs ==
    BalancedInputs \cup OneSpanInputs \cup UnterminatedInputs \cup PlainInputs
    \cup EmptyPairInputs \cup LoopingInputs

OKReply == ReplyOf(<<<<"+", "O", "K">>>>)

\* One-line replies over a small alphabet, alone or followed by a second
\* line, and the documented error reply.
LineChars == {"-", "+", SP, "O", "K"}

ErrWrongArgs ==
    <<"-", "E", "R", "R", " ", "w", "r", "o", "n", "g", " ", "n", "u", "m",
    "b", "e", "r", " ", "o", "f", " ", "a", "r", "g", "u", "m", "e", "n", "t",
    "s">>

ErrWrongArgsText ==
    <<"E", "R", "R", " ", "w", "r", "o", "n", "g", " ", "n", "u", "m", "b",
    "e", "r", " ", "o", "f", " ", "a", "r", "g", "u", "m", "e", "n", "t",
    "s">>

LineInputs ==
    {[kind |-> "line", elems |-> <<>>, buf |-> ReplyOf(<<l>> \o more)] :
        l \in SeqsOf(LineChars, 1, MaxLineLen) \cup {ErrWrongArgs},
        more \in {<<>>, <<<<"x">>>>, <<<<>>>>}}

\* Array replies *N with exactly N elements; an element is <<>> for a null
\* bulk ($-1) and <<data>> for a bulk string ($<length>, then the data).
ElemLines(e) ==
    IF e = <<>> THEN <<<<DOLLAR, "-", "1">>>>
    ELSE <<<<DOLLAR>> \o IntToStr(Len(e[1])), e[1]>>

RECURSIVE ElemsLines(_)
ElemsLines(elems) ==
    IF elems = <<>> THEN <<>> ELSE ElemLines(Head(elems)) \o ElemsLines(Tail(elems))

ArrayReply(elems) == ReplyOf(<<<<"*">> \o IntToStr(Len(elems))>> \o ElemsLines(elems))

Elems == {<<>>, <<<<"a">>>>, <<<<"b">>>>}

ArrayInputs ==
    {[kind |-> "array", elems |-> e, buf |-> ArrayReply(e)] : e \in SeqsOf(Elems, 0, MaxElems)}

\* The null bulk reply.
NullBulkReply == ReplyOf(<<<<DOLLAR, "-", "1">>>>)

NullBulkInputs == {[kind |-> "nullbulk", elems |-> <<>>, buf |-> NullBulkReply]}

\* Bulk replies $<n> with a payload of n characters, n in 0..MaxPayload;
\* a payload may hold spaces and line breaks.
MaxPayload == 3

PayloadChars == {"a", SP, CR, LF}

BulkReply(payload) ==
    <<DOLLAR>> \o IntToStr(Len(Utf8Bytes(payload))) \o <<CR, LF>> \o payload \o <<CR, LF>>

BulkInputs ==
    {[kind |-> "bulk", elems |-> <<p>>, buf |-> BulkReply(p)] :
        p \in SeqsOf(PayloadChars, 0, MaxPayload)}

\* Integer replies :<k> for k in -MaxInt..MaxInt, written in base 10.
MaxInt == 12

IntegerReply(k) == ReplyOf(<<<<":">> \o IntToStr(k)>>)

IntegerInputs ==
    {[kind |-> "integer", elems |-> <<k>>, buf |-> IntegerReply(k)] :
        k \in (0 - MaxInt)..MaxInt}

\* Array replies whose declared count differs from the number of elements
\* that follow: one more than there are, or one fewer.
MiscountReply(n, elems) == ReplyOf(<<<<"*">> \o IntToStr(n)>> \o ElemsLines(elems))

MiscountInputs ==
    {[kind |-> "miscount", elems |-> <<Len(e) + 1>>, buf |-> MiscountReply(Len(e) + 1, e)] :
        e \in SeqsOf(Elems, 0, MaxElems - 1)}
    \cup
    {[kind |-> "miscount", elems |-> <<Len(e) - 1>>, buf |-> MiscountReply(Len(e) - 1, e)] :
        e \in SeqsOf(Elems, 1, MaxElems)}

\* *2 followed by one element.
TwoDeclaredOneGiven == MiscountReply(2, <<<<<<"a">>>>>>)

DecInputs ==
    LineInputs \cup ArrayInputs \cup NullBulkInputs \cup BulkInputs \cup IntegerInputs
    \cup MiscountInputs

----------------------------------------------------------------------------
(* Specifications *)

\* The caller is sequential: it calls query or disconnect only when no
\* query of its own is suspended.
CallerIdle == stack = <<>>

Init == InitClient /\ given = <<>>

Next ==
    \/ \E q \in Commands, t \in BOOLEAN, e \in Errors : CallerIdle /\ QueryCall(q, t, e)
    \/ QueryResume
    \/ \E m \in Inbound : OnMessage(m)
    \/ \E e \in Errors : OnError(e)
    \/ \E t \in BOOLEAN : CallerIdle /\ Disconnect(t)

Spec == Init /\ [][Next]_vars

\* responsePromise.sync() hands back a settled promise: the innermost
\* suspended query leaves the stack.  This is QueryResume seen on the stack
\* alone; no other action shortens the stack.
SyncReturns ==
    /\ stack # <<>>
    /\ calls[stack[Len(stack)]].state # "pending"
    /\ stack' = SubSeq(stack, 1, Len(stack) - 1)

\* The client with the guarantee of sync(): a suspended query whose promise
\* is settled does resume.
SpecFair == Init /\ [][Next]_vars /\ WF_stack(SyncReturns)

\* Callers that share the client: while a query is suspended in sync() the
\* event loop runs, and another caller may invoke query on the same client.
NextShared ==
    \/ \E q \in Commands, t \in BOOLEAN, e \in Errors : QueryCall(q, t, e)
    \/ QueryResume
    \/ \E m \in Inbound : OnMessage(m)
    \/ \E e \in Errors : OnError(e)
    \/ \E t \in BOOLEAN : CallerIdle /\ Disconnect(t)

SpecShared == Init /\ [][NextShared]_vars

\* The construction of a client: the configurations, and the constructor
\* with the notifications that arrive while one of its queries is suspended.
Passwords == {<<>>, <<"p">>}

Databases == {<<"0">>, <<"1">>}

CtorConfigs == [kind : {"ctor"}, password : Passwords, db : Databases]

CtorInbound == Inbound \cup {<<ReplyOf(<<<<"+", "o", "k">>>>)>>}

InitCtor == InitClient /\ given \in CtorConfigs

NextCtor ==
    \/ CtorAuth(given)
    \/ CtorSelect(given)
    \/ CtorFail
    \/ CtorDone(given)
    \/ QueryResume
    \/ \E m \in CtorInbound : stack # <<>> /\ OnMessage(m)
    \/ \E e \in Errors : stack # <<>> /\ OnError(e)

SpecCtor == InitCtor /\ [][NextCtor]_vars

\* One command under test: the caller issues it once on a fresh client and
\* the server answers +OK.
InitTok == InitClient /\ given \in TokInputs

NextTok ==
    \/ last.op = "init" /\ QueryCall(given.cmd, FALSE, <<>>)
    \/ QueryResume
    \/ last.op = "wait" /\ OnMessage(<<OKReply>>)

SpecTok == InitTok /\ [][NextTok]_vars

\* One reply under test: the caller issues GET k and every inbound message
\* is that reply.
InitDec == InitClient /\ given \in DecInputs

NextDec ==
    \/ CallerIdle /\ QueryCall(GetK, FALSE, <<>>)
    \/ QueryResume
    \/ OnMessage(<<given.buf>>)

SpecDec == InitDec /\ [][NextDec]_vars

----------------------------------------------------------------------------
(* Properties *)

\* Shorthands for the outcome of the query that has just returned.
Returned == last.op = "query"

ReturnedNull == Returned /\ last.ret.null

Decoded == Returned /\ last.reply # <<>>

\* The first line of the reply as the decoder sees it.
FirstLineOf(buf) == Head(SplitCRLF(Trim(buf)))

\* C1: a call is never resolved with a buffer that the message notification
\* delivered before that call's frame was sent: every resolved call k holds
\* a buffer delivered when at least k calls had sent their frame.
C1_NoStaleReply ==
    \A k \in 1..Len(calls) : calls[k].state = "resolved" => calls[k].msg.at >= k

\* C2: after a query that received a successful integer, bulk or array
\* reply, status is "OK", whatever an earlier call or error notification
\* left in it.
C2_StatusOfLastCall ==
    (Decoded /\ ~last.ret.null /\ FirstLineOf(last.reply[1])[1] \in {":", DOLLAR, "*"})
        => status = S_OK

\* C6: whenever query returns null, rows is 0.
C6_RowsZeroOnFailure == ReturnedNull => rows = 0


\* The frame of a token sequence as the wire format defines it: the count,
\* then each token behind its length in UTF-8 bytes.
RECURSIVE WireArgs(_)
WireArgs(tokens) ==
    IF tokens = <<>> THEN <<>>
    ELSE <<DOLLAR>> \o IntToStr(Len(Utf8Bytes(Head(tokens)))) \o <<CR, LF>>
         \o Head(tokens) \o <<CR, LF>> \o WireArgs(Tail(tokens))

WireFrame(tokens) == <<"*">> \o IntToStr(Len(tokens)) \o <<CR, LF>> \o WireArgs(tokens)

\* The argument count that a frame declares in its first line.
FrameCount(msg) == ParseInt(Tail(Head(SplitCRLF(msg))))

\* The command under test has been issued.
Issued == last.op # "init"

\* C4: for a command with balanced quotes of one style the number of
\* arguments of the encoded frame is the number of space-separated units,
\* each quoted span counting as one unit.
C4_TokenCount ==
    (given.kind = "balanced" /\ Issued)
        => sent.call = 1 /\ FrameCount(sent.msg) = Num(Len(given.units))

\* C5: every length prefix of the frame is the UTF-8 byte length of its
\* payload and the length handed to send is the byte length of the frame.
C5_ByteLengths ==
    (given.kind = "plain" /\ sent.call = 1)
        => sent.msg = WireFrame(given.units) /\ sent.length = Len(sent.buf)

C8_UnterminatedQuoteFails ==
    (given.kind = "unterminated" /\ Issued)
        => ReturnedNull /\ status = S_ParseLimit /\ sent.call = 0

\* The result that an array reply with the given elements stands for.
ElemsResult(elems) ==
    [i \in 1..Len(elems) |-> IF elems[i] = <<>> THEN NullElem ELSE StrElem(elems[i][1])]

\* C3: an array reply *N with exactly N bulk or null-bulk elements decodes
\* to the N data lines and nulls in order, with rows = N.
C3_ArrayDecoding ==
    (given.kind = "array" /\ Decoded)
        => last.ret = RetData(ElemsResult(given.elems)) /\ rows = Len(given.elems)

\* status is what is left of line once a leading run of the characters of
\* set, at least one long, is removed, and does not start with one of them.
RunRemoved(line, st, set) ==
    \E n \in 1..Len(line) :
        /\ \A i \in 1..n : line[i] \in set
        /\ st = SubSeq(line, n + 1, Len(line))
        /\ st = <<>> \/ Head(st) \notin set

\* line without its first character and without one space after it.
MarkerRemoved(line) ==
    IF Len(line) >= 2 /\ line[2] = SP THEN SubSeq(line, 3, Len(line)) ELSE Tail(line)

\* C9 as stated: an error reply gives null, rows = 0 and the status is the
\* line without its marker and leading space.
C9_ErrorReplyAsStated ==
    (Decoded /\ StartsWith(last.reply[1], "-"))
        => /\ last.ret = RetNull
           /\ rows = 0
           /\ status = MarkerRemoved(Head(SplitCRLF(last.reply[1])))

\* C9, amended: an error reply gives null, rows = 0 and the status is the
\* first line of the trimmed reply without its whole leading run of "-"
\* and space characters; -ERR wrong number of arguments gives that text.
C9_ErrorReply ==
    (Decoded /\ StartsWith(FirstLineOf(last.reply[1]), "-"))
        => /\ last.ret = RetNull
           /\ rows = 0
           /\ RunRemoved(FirstLineOf(last.reply[1]), status, {"-", SP})
           /\ last.reply[1] = ReplyOf(<<ErrWrongArgs>>) => status = ErrWrongArgsText

C9_Witness ==
    /\ Decoded
    /\ last.reply[1] = ReplyOf(<<ErrWrongArgs>>)
    /\ last.ret = RetNull
    /\ status = ErrWrongArgsText

\* C10 as stated: a simple-string reply gives an empty sequence, rows = 0
\* and the status is the text of the line after the marker.
C10_SimpleReplyAsStated ==
    (Decoded /\ StartsWith(last.reply[1], "+"))
        => /\ last.ret = RetData(<<>>)
           /\ rows = 0
           /\ status = Tail(Head(SplitCRLF(last.reply[1])))

\* C10, amended: a simple-string reply gives an empty sequence, rows = 0
\* and the status is the first line of the trimmed reply without its whole
\* leading run of "+" and space characters; +OK leaves status "OK".
C10_SimpleReply ==
    (Decoded /\ StartsWith(FirstLineOf(last.reply[1]), "+"))
        => /\ last.ret = RetData(<<>>)
           /\ rows = 0
           /\ RunRemoved(FirstLineOf(last.reply[1]), status, {"+", SP})
           /\ last.reply[1] = OKReply => status = S_OK

C10_Witness ==
    /\ Decoded
    /\ last.reply[1] = OKReply
    /\ last.ret = RetData(<<>>)
    /\ status = S_OK

\* C11: the null bulk reply $-1 gives a result that is not null, the empty
\* sequence, with rows = 0; the no-reply failure and every other failure
\* give null.
C11_NullBulk ==
    (given.kind = "nullbulk" /\ Decoded)
        => /\ ~last.ret.null
           /\ last.ret = RetData(<<>>)
           /\ rows = 0

C11_Witness ==
    /\ given.kind = "nullbulk"
    /\ Decoded
    /\ last.reply[1] = NullBulkReply
    /\ last.ret = RetData(<<>>)
    /\ rows = 0

\* C12: a bulk reply $<n>, n >= 0, gives exactly one element, the payload
\* unchanged (the empty string for a zero-length payload), with rows = 1.
C12_BulkVerbatim ==
    (given.kind = "bulk" /\ Decoded)
        => last.ret = RetData(<<StrElem(given.elems[1])>>) /\ rows = 1

\* C13: an integer reply :<k> gives the one-element sequence that holds the
\* number k, negative values included, with rows = 1 (for k that a
\* JavaScript number holds exactly).
C13_IntegerReply ==
    (given.kind = "integer" /\ Decoded)
        => /\ last.ret = RetData(<<[t |-> "num", s |-> <<>>, n |-> given.elems[1]]>>)
           /\ rows = 1

C13_Witness ==
    /\ given.kind = "integer"
    /\ given.elems[1] = 0 - MaxInt
    /\ Decoded
    /\ last.ret.data[1].n = 0 - MaxInt
    /\ rows = 1

\* s starts with the text p.
HasPrefix(s, p) == Len(s) >= Len(p) /\ SubSeq(s, 1, Len(p)) = p

\* C14: an array reply whose number of elements (bulk strings and null
\* bulks) differs from the declared count N gives null, rows = 0 and a status that names the expected count;
\* no part of the elements is returned.
C14_ArrayMiscount ==
    (given.kind = "miscount" /\ Decoded)
        => /\ last.ret = RetNull
           /\ rows = 0
           /\ HasPrefix(status, S_InvalidPre \o IntToStr(given.elems[1]) \o S_InvalidMid)

C14_Witness ==
    /\ given.kind = "miscount"
    /\ Decoded
    /\ last.reply[1] = TwoDeclaredOneGiven
    /\ last.ret = RetNull
    /\ rows = 0
    /\ HasPrefix(status, S_InvalidPre \o <<"2">>)

\* C15: a query whose frame was sent and whose inbound message was a
\* zero-length buffer or no buffer returns null with the status 'No response
\* from Redis server'.
C15_EmptyOrAbsentBuffer ==
    (Returned /\ last.call > 0 /\ last.sent /\ last.reply \in {<<>>, <<EmptyBuffer>>})
        => ReturnedNull /\ status = S_NoResponse

\* The reply markers, and the first character of a reply that is not white
\* space (NUL when there is none).
Markers == {"-", "+", ":", DOLLAR, "*"}

FirstVisible(buf) ==
    LET K == {i \in 1..Len(buf) : buf[i] \notin {SP, TAB, CR, LF}}
    IN  IF K = {} THEN NUL ELSE buf[Min(K)]

Letterless == {<<>>, <<"1">>}

\* C17: a query with an empty command, or with one that holds no letter,
\* returns null at once; send is not called and the pending-message slot and
\* the completion hook stay as they were.
C17_RejectedBeforeIO ==
    [][(last'.op \in {"query", "wait"} /\ last'.q \in Letterless)
          => /\ last'.op = "query"
             /\ last'.ret = RetNull
             /\ last'.call = 0
             /\ UNCHANGED <<sent, calls, stack, pendingResponse, responseCallback>>]_vars

C17_Witness ==
    /\ Returned
    /\ last.q = <<"1">>
    /\ last.ret = RetNull
    /\ status = S_InvalidQuery
    /\ pendingResponse # <<>>
    /\ sent.call = 1
    /\ connection

\* C18: a query with a non-empty command that is issued after disconnect,
\* or while the client holds no connection, returns null with the status
\* 'No connection'; send is not called and no completion hook is registered.
C18_QueryAfterDisconnect ==
    [][((~connection \/ last.op = "disconnect")
            /\ last'.op \in {"query", "wait"} /\ last'.q # <<>>)
          => /\ last'.op = "query"
             /\ last'.ret = RetNull
             /\ last'.call = 0
             /\ status' = S_NoConnection
             /\ UNCHANGED <<sent, calls, stack, pendingResponse, responseCallback>>]_vars

C18_Witness ==
    /\ ~connection
    /\ Returned
    /\ last.q = GetK
    /\ last.ret = RetNull
    /\ status = S_NoConnection
    /\ responseCallback = 0
    /\ sent.call = 1

\* C19: when send raises an error the query returns null at once, without
\* waiting for a message, with the status 'Failed to send command: ' and
\* the error text, whether or not a message was in the pending-message slot.
C19_SendFailure ==
    [][(Len(calls') > Len(calls) /\ ~last'.sent)
          => /\ last'.op = "query"
             /\ last'.ret = RetNull
             /\ stack' = stack
             /\ \E e \in Errors : status' = S_SendFailed \o e]_vars

C19_Witness ==
    /\ Returned
    /\ last.call = 2
    /\ ~last.sent
    /\ last.ret = RetNull
    /\ calls[1].state = "resolved"
    /\ calls[2].state = "rejected"
    /\ status = S_SendFailed \o <<"E", "I", "O">>

\* C20: whenever query returns null it returns no data and status holds a
\* non-empty explanation.
C20_NullHasExplanation ==
    ReturnedNull => last.ret = RetNull /\ status # <<>>

\* C21: whenever query returns a sequence, rows is the number of its
\* elements.
C21_RowsIsElementCount ==
    (Returned /\ ~last.ret.null) => rows = Len(last.ret.data)

ReturnedCalls == {id \in 1..Len(calls) : \A i \in 1..Len(stack) : stack[i] # id}

\* The innermost suspended call.
Waiting == stack[Len(stack)]

\* C23 as stated: a query whose frame was sent returns only with an inbound
\* buffer delivered to it.
C23_BlockedUntilBufferAsStated ==
    \A id \in ReturnedCalls : calls[id].sent => calls[id].state = "resolved"

\* C23, amended: a query whose frame was sent returns only when the message
\* notification has handed it one buffer, or has handed it no buffer (it
\* then fails with the no-reply status); a message notification settles the
\* call that waits, and a settled call does return.
C23_BlockedUntilBuffer ==
    /\ [](\A id \in ReturnedCalls :
              calls[id].sent
                  => \/ calls[id].state = "resolved"
                     \/ calls[id].state = "rejected" /\ calls[id].err = S_NoResponse)
    /\ [][(stack # <<>> /\ last'.op = "message") => calls'[Waiting].state # "pending"]_vars
    /\ ((stack # <<>> /\ calls[Waiting].state # "pending") ~> (stack = <<>>))

C23_Witness ==
    /\ Returned
    /\ last.call = 2
    /\ last.sent
    /\ calls[2].state = "resolved"
    /\ calls[2].msg.at = 2
    /\ last.reply = <<calls[2].msg.bytes>>

\* C24: disconnect() on a connected client leaves no connection, an empty
\* pending-message slot, no completion hook, rows = 0 and an empty status,
\* whether or not close() raised; on a client already disconnected it
\* changes none of these fields.
C24_DisconnectResets ==
    [][last'.op = "disconnect"
          => IF connection
             THEN /\ ~connection'
                  /\ pendingResponse' = <<>>
                  /\ responseCallback' = 0
                  /\ rows' = 0
                  /\ status' = S_Empty
             ELSE UNCHANGED <<connection, pendingResponse, responseCallback, rows,
                              status>>]_vars

C24_Witness ==
    /\ last.op = "disconnect"
    /\ last.closeFailed
    /\ calls # <<>>
    /\ ~connection
    /\ pendingResponse = <<>>
    /\ responseCallback = 0
    /\ rows = 0
    /\ status = S_Empty

\* The suspended calls whose promise is not settled yet.
AwaitingReply == {i \in 1..Len(stack) : calls[stack[i]].state = "pending"}

\* C25: at most one call awaits its reply at any time, and the completion
\* hook of a call that awaits its reply is that call's own hook.
C25_OneAwaitingReply ==
    /\ Cardinality(AwaitingReply) <= 1
    /\ \A i \in AwaitingReply : responseCallback = stack[i]

\* The promise of a call whose completion hook has been invoked with a
\* buffer or with an absent buffer.
HookInvoked(c) ==
    \/ c.state = "resolved"
    \/ c.state = "rejected" /\ c.err = S_NoResponse

\* C26: a completion hook that has been invoked is registered no longer, so
\* no later message can invoke it again.
C26_HookClearedOnceInvoked ==
    responseCallback # 0 => ~HookInvoked(calls[responseCallback])

\* C27: the pending-message slot and the completion hook are never both
\* populated.
C27_SlotOrHook == ~(pendingResponse # <<>> /\ responseCallback # 0)

C27_Witness ==
    /\ last.op = "message"
    /\ pendingResponse # <<>>
    /\ responseCallback = 0
    /\ Len(calls) = 1
    /\ calls[1].state = "resolved"
    /\ calls[1].msg.at = 1
    /\ stack = <<>>

\* C30: an error notification sets status to 'Socket error: ' followed by
\* the error text and changes nothing else: rows, the connection, the
\* pending-message slot, the completion hook and every promise stay as they
\* were, and no suspended query resumes.
C30_ErrorChangesStatusOnly ==
    [][last'.op = "error"
          => /\ \E e \in Errors : status' = S_SocketError \o e
             /\ UNCHANGED <<rows, connection, pendingResponse, responseCallback,
                            calls, stack, sent>>]_vars

C30_Witness ==
    /\ last.op = "error"
    /\ stack = <<1>>
    /\ calls[1].state = "pending"
    /\ responseCallback = 1
    /\ status = S_SocketError \o <<"E", "I", "O">>

\* A status that holds the letters o and k in a row, in either case.
OKText(st) ==
    \E i \in 1..(Len(st) - 1) :
        <<st[i], st[i + 1]>> \in {<<"O", "K">>, <<"O", "k">>, <<"o", "K">>, <<"o", "k">>}

\* The calls of the constructor that reached the transport, by command.
IsAuth(i) == calls[i].q = AuthCmd(given.password)

IsSelect(i) == calls[i].q = SelectCmd(given.db)

\* C29: during construction AUTH is issued only with a non-empty password
\* and as the first command; SELECT is issued first when there is no
\* password and otherwise only once AUTH has left a status matching OK;
\* when AUTH or SELECT leaves another status the client disconnects and
\* sends nothing more; a completed construction leaves status empty and
\* rows 0.
C29_ConstructorSequence ==
    /\ [](\A i \in 1..Len(calls) :
              /\ IsAuth(i) \/ IsSelect(i)
              /\ IsAuth(i) => given.password # <<>> /\ i = 1
              /\ IsSelect(i) => IF given.password = <<>> THEN i = 1
                                ELSE i = 2 /\ IsAuth(1))
    /\ [][(Len(calls') > Len(calls) /\ calls # <<>>)
              => last.op = "query" /\ last.call = 1 /\ OKText(status)]_vars
    /\ [][(last.op = "query" /\ ~OKText(status))
              => last'.op = "disconnect" /\ ~connection' /\ UNCHANGED <<sent, calls>>]_vars
    /\ [][~connection => UNCHANGED <<sent, calls>>]_vars
    /\ [](last.op = "constructed"
              => /\ status = S_Empty
                 /\ rows = 0
                 /\ connection
                 /\ calls # <<>>
                 /\ IsSelect(Len(calls)))

C29_Witness ==
    /\ last.op = "constructed"
    /\ given.password = <<"p">>
    /\ Len(calls) = 2
    /\ calls[1].sent /\ IsAuth(1)
    /\ calls[2].sent /\ IsSelect(2)
    /\ sent.call = 2
    /\ status = S_Empty
    /\ rows = 0

\* The value of len when the quoted-span loop is left for the command q.
LenAfterLoop(q) ==
    LET n == Normalize(q)
        Q == ActiveQuote(n)
    IN  SpanLoop(EscapeQuotes(n, Q), Q, ParseLimit).len

\* C28: for every command that enters the quoted-span loop, the loop ends
\* with len between 0 and the limit, that is after at most 1023 executions
\* of its body; when it ends with the limit used up (len <= 1) the query
\* returns null with status 'Query parsing limit exceeded' and nothing is
\* sent, and otherwise the frame is sent.
C28_LoopCeiling ==
    (last.op \in {"query", "wait"} /\ HasQuoteIntro(Normalize(given.cmd)))
        => LET len == LenAfterLoop(given.cmd)
           IN  /\ len \in 0..ParseLimit
               /\ ParseLimit - Max({len, 1}) <= 1023
               /\ IF len <= 1
                  THEN /\ ReturnedNull
                       /\ status = S_ParseLimit
                       /\ sent = NoSend
                       /\ calls = <<>>
                  ELSE sent.call = 1

C28_Witness ==
    /\ given.kind = "looping"
    /\ ReturnedNull
    /\ LenAfterLoop(given.cmd) = 0
    /\ status = S_ParseLimit
    /\ sent = NoSend

====
